---- MODULE Spec2Model ----
(***************************************************************************)
(* A model of the async web crawler (src/async-web-crawler): the result    *)
(* store CsvStorage (storage.py), the retrying HttpFetcher (fetcher.py),   *)
(* the ContentParser (parser.py) and the WebCrawler orchestrator           *)
(* (crawler.py).                                                           *)
(*                                                                         *)
(* Python values are modelled as follows.  A dict is a function whose      *)
(* DOMAIN is its key set.  None, True and False are the strings "None",    *)
(* "True" and "False".  A confidence is an integer number of hundredths    *)
(* (0.85 is 85, 1.5 is 150).  A file is [exists, lines]; a CSV line is a   *)
(* tuple of the four rendered fields.                                      *)
(***************************************************************************)
EXTENDS Integers, Sequences, FiniteSets, TLC

VARIABLES
    \* ---- CsvStorage and the file system it writes to
    results,      \* CsvStorage.results: the accepted records, in order
    dirOK,        \* the destination directory exists
    dest,         \* the file at CsvStorage.output_file
    temp,         \* the file made by tempfile.mkstemp in the running save()
    orphans,      \* number of temp files that earlier save() calls left behind
    savePc,       \* position of the running save(): idle, makedirs, ...
    saveIdx,      \* index of the next element of self.results in save()'s loop
    seen_urls,    \* save()'s local seen_urls
    saveRet,      \* what the last save() returned: "none", "True", "False"
    \* ---- history of the store's use (not program state)
    offered,      \* every record passed to add_result, in order
    dest0,        \* the destination file before the run
    destAtCall,   \* the destination file when the running/last save() began
    faultAt,      \* the step of the running/last save() that raised, or "none"
    removeFailed, \* the last save() failed and could not delete its temp file
    saveCalls,    \* number of save() calls begun
    savedLen,     \* Len(results) when the last os.replace happened
    cleanSaves,   \* successful saves since the last add_result
    firstOut,     \* the destination after the first of those saves
    \* ---- WebCrawler.crawl and its per-URL pipelines
    urls,           \* crawl's argument: the list of URLs
    max_concurrent, \* WebCrawler.max_concurrent
    max_retries,    \* HttpFetcher.max_retries
    rate_limit,     \* HttpFetcher.rate_limit, the backoff base in seconds
    sem,            \* the value of crawl's asyncio.Semaphore
    pc,             \* per pipeline: waiting, robots, get, read, sleep, done
    attempt,        \* per pipeline: fetch_url's loop variable
    ret,            \* per pipeline: what _crawl_single_url returned
    crawlRet,       \* what crawl returned (NotYet while it runs)
    proxy_given,    \* crawl's proxy argument, as the caller gave it
    proxy,          \* crawl's proxy after line 52, passed to every fetch_url
    \* ---- what the network is taken to do in this run
    robotsKinds,    \* the ways the fetch of a robots.txt can end
    replyKinds,     \* the ways a GET can answer
    pages,          \* the bodies a server can send
    \* ---- history of the run (not program state)
    gets,           \* per pipeline: number of session.get calls issued
    replies,        \* per pipeline: how each GET attempt ended
    sleeps,         \* per pipeline: the backoff sleeps taken, in seconds
    handed,         \* per pipeline: the records passed to storage.add_result
    calls,          \* per pipeline: the functions it called, in order
    gate,           \* per pipeline: what check_robots_txt returned
    robots,         \* per pipeline: how the fetch of its robots.txt ended
    bodyRead,       \* per pipeline: the body response.text() returned last
    via,            \* per pipeline: the proxy values its GETs were issued with
    \* ---- main.py
    mainPc,         \* where main() is: config, crawl, save, exited (lib: not run)
    exitStatus,     \* the status given to sys.exit ("None" while running)
    start_urls,     \* the entries of START_URLS, as split(',') returns them
    \* ---- history of the calls of validate_proxy_url
    proxyLog        \* the calls made: argument and returned value

storeVars == <<results, dirOK, dest, temp, orphans, savePc, saveIdx, seen_urls, saveRet,
               offered, dest0, destAtCall, faultAt, removeFailed, saveCalls, savedLen,
               cleanSaves, firstOut>>

\* the store's variables other than the list of records
storeRest == <<dirOK, dest, temp, orphans, savePc, saveIdx, seen_urls, saveRet,
               offered, dest0, destAtCall, faultAt, removeFailed, saveCalls, savedLen,
               cleanSaves, firstOut>>

crawlVars == <<urls, max_concurrent, max_retries, rate_limit, sem, pc, attempt,
               ret, crawlRet, replyKinds, pages, gets, replies, sleeps, handed,
               calls, gate, robotsKinds, robots, bodyRead, proxy_given, proxy,
               via>>

mainVars == <<mainPc, exitStatus, start_urls, proxyLog>>

vars == <<storeVars, crawlVars, mainVars>>

----------------------------------------------------------------------------
(* Bounds of the model *)

\* number of calls of the store's methods (add_result, save) explored
MaxCalls == 4

\* length of the URL list given to crawl
NumUrls == 3

\* largest concurrency ceiling explored
MaxConcurrent == 2

\* largest max_retries explored
MaxRetriesBound == 2

\* largest max_retries explored for the fetch of a single URL
MaxFetchRetries == 3

\* number of comma-separated entries of START_URLS
MainUrls == 2

\* number of calls of validate_proxy_url explored
MaxProxyCalls == 3

----------------------------------------------------------------------------
(* Python values *)

PyNone == "None"

\* the value of a call that has not returned
NotYet == [pending |-> TRUE]

\* 1.0 in hundredths (the upper clamp of storage.py)
ConfOne == 100

Min2(a, b) == IF a < b THEN a ELSE b

Max2(a, b) == IF a > b THEN a ELSE b

\* dict.get(key): the value, or None when the key is missing
DictGet(d, key) == IF key \in DOMAIN d THEN d[key] ELSE PyNone

----------------------------------------------------------------------------
(* storage.py: CsvStorage *)

FIELDNAMES == <<"url", "suspicious", "confidence", "content_type">>

required_keys == {"url", "suspicious", "confidence"}

\* a clamp that forgets the upper end
Clamp_NoUpper(c) == Max2(0, c)

\* result['confidence'] = max(0, min(1, result['confidence']))
Clamp(c) == Max2(0, Min2(ConfOne, c))

\* _validate_result's verdict: every required key is present
ValidateOK(result) == required_keys \subseteq DOMAIN result

\* _validate_result's effect on the dict it is given (clamped in place)
Validated(result) ==
    IF ~(0 <= result["confidence"] /\ result["confidence"] <= ConfOne)
    THEN [result EXCEPT !["confidence"] = Clamp(result["confidence"])]
    ELSE result

\* an add_result that drops a record whose URL is already held
add_result_dedup(res, result) ==
    IF ValidateOK(result) /\ \A i \in 1..Len(res) : res[i]["url"] # result["url"]
    THEN Append(res, Validated(result))
    ELSE res

\* an add_result that asks for the url key only
add_result_urlonly(res, result) ==
    IF "url" \in DOMAIN result
    THEN Append(res, IF "confidence" \in DOMAIN result THEN Validated(result) ELSE result)
    ELSE res

\* add_result: self.results after the call, given self.results before it
add_result(res, result) ==
    IF ValidateOK(result) THEN Append(res, Validated(result)) ELSE res

\* csv.DictWriter's rendering of one value: None is the empty field
CsvStr(v) == IF v = PyNone THEN "" ELSE v

\* row = {key: result.get(key) for key in FIELDNAMES}; writer.writerow(row)
CsvRow(result) ==
    << CsvStr(DictGet(result, "url")),
       CsvStr(DictGet(result, "suspicious")),
       IF "confidence" \in DOMAIN result THEN ToString(result["confidence"]) ELSE "",
       CsvStr(DictGet(result, "content_type")) >>

Absent == [exists |-> FALSE, lines |-> <<>>]

File(ls) == [exists |-> TRUE, lines |-> ls]

\* a replace that appends the rows to an existing destination
OsReplace_Append(src, dst) ==
    IF dst.exists THEN File(dst.lines \o Tail(src.lines)) ELSE src

\* os.replace(temp_path, self.output_file): the destination afterwards
OsReplace(src, dst) == src

\* some earlier run's output, found at the destination before this run
OldFile == File(<<FIELDNAMES, <<"old", "False", "15", "structured">>>>)

\* the records add_result is called with
FullRecords ==
    { [url |-> "u1", suspicious |-> "False", confidence |-> 85,  content_type |-> "structured"],
      [url |-> "u1", suspicious |-> PyNone,  confidence |-> -20, content_type |-> "error"] }

\* a record as the tests build it, without content_type
ShortRecords ==
    { [url |-> "u2", suspicious |-> "True", confidence |-> 150] }

\* records that lack a required key
BrokenRecords ==
    { [url |-> "u1", suspicious |-> "False"],
      [url |-> "u2", confidence |-> 85, content_type |-> "structured"],
      [suspicious |-> "True", confidence |-> 15, content_type |-> "unstructured"] }

OfferedRecords == FullRecords \cup ShortRecords \cup BrokenRecords

\* a new CsvStorage, and what is at its output path
StoreInitAt(starts) ==
    /\ results = <<>>
    /\ \E d \in starts :
          /\ dirOK = d[1]
          /\ dest = d[2]
          /\ dest0 = d[2]
          /\ destAtCall = d[2]
          /\ firstOut = d[2]
    /\ temp = Absent
    /\ orphans = 0
    /\ savePc = "idle"
    /\ saveIdx = 1
    /\ seen_urls = {}
    /\ saveRet = "none"
    /\ offered = <<>>
    /\ faultAt = "none"
    /\ removeFailed = FALSE
    /\ saveCalls = 0
    /\ savedLen = 0
    /\ cleanSaves = 0

StoreInit == StoreInitAt({<<FALSE, Absent>>, <<TRUE, Absent>>, <<TRUE, OldFile>>})

\* no crawl is running
CrawlIdle ==
    /\ urls = <<>>
    /\ max_concurrent = 1
    /\ max_retries = 1
    /\ rate_limit = 1
    /\ sem = 1
    /\ pc = <<>>
    /\ attempt = <<>>
    /\ ret = <<>>
    /\ crawlRet = NotYet
    /\ replyKinds = {}
    /\ pages = {}
    /\ gets = <<>>
    /\ replies = <<>>
    /\ sleeps = <<>>
    /\ handed = <<>>
    /\ calls = <<>>
    /\ gate = <<>>
    /\ robotsKinds = {}
    /\ robots = <<>>
    /\ bodyRead = <<>>
    /\ proxy_given = PyNone
    /\ proxy = PyNone
    /\ via = <<>>

\* main() is not running: the modules are used as a library
NoMain ==
    /\ mainPc = "lib"
    /\ exitStatus = PyNone
    /\ start_urls = <<>>
    /\ proxyLog = <<>>

\* storage.add_result(result), called by the store's owner between saves
AddResultCall(result) ==
    /\ savePc = "idle"
    /\ Len(offered) + saveCalls < MaxCalls
    /\ results' = add_result(results, result)
    /\ offered' = Append(offered, result)
    /\ cleanSaves' = 0
    /\ UNCHANGED <<orphans, dirOK, dest, temp, savePc, saveIdx, seen_urls, saveRet,
                   dest0, destAtCall, faultAt, removeFailed, saveCalls, savedLen, firstOut>>

\* save() is entered
SaveCall ==
    /\ savePc = "idle"
    /\ Len(offered) + saveCalls < MaxCalls
    /\ savePc' = "makedirs"
    /\ saveRet' = "none"
    /\ destAtCall' = dest
    /\ faultAt' = "none"
    /\ removeFailed' = FALSE
    /\ saveCalls' = saveCalls + 1
    /\ UNCHANGED <<orphans, results, dirOK, dest, temp, saveIdx, seen_urls, offered,
                   dest0, savedLen, cleanSaves, firstOut>>

\* os.makedirs(dirname, exist_ok=True) succeeds
SaveMakedirs ==
    /\ savePc = "makedirs"
    /\ dirOK' = TRUE
    /\ savePc' = "mkstemp"
    /\ UNCHANGED <<orphans, results, dest, temp, saveIdx, seen_urls, saveRet, offered,
                   dest0, destAtCall, faultAt, removeFailed, saveCalls, savedLen, cleanSaves,
                   firstOut>>

\* a save() that opens the destination itself for writing
SaveMkstemp_AtDest ==
    /\ savePc = "mkstemp"
    /\ dest' = File(<<>>)
    /\ temp' = File(<<>>)
    /\ savePc' = "header"
    /\ UNCHANGED <<orphans, results, dirOK, saveIdx, seen_urls, saveRet, offered,
                   dest0, destAtCall, faultAt, removeFailed, saveCalls, savedLen, cleanSaves,
                   firstOut>>

\* tempfile.mkstemp(dir=dirname) succeeds: an empty file beside the destination
SaveMkstemp ==
    /\ savePc = "mkstemp"
    /\ temp' = File(<<>>)
    /\ savePc' = "header"
    /\ UNCHANGED <<orphans, results, dirOK, dest, saveIdx, seen_urls, saveRet, offered,
                   dest0, destAtCall, faultAt, removeFailed, saveCalls, savedLen, cleanSaves,
                   firstOut>>

\* os.fdopen, writer.writeheader(), seen_urls = set()
SaveWriteHeader ==
    /\ savePc = "header"
    /\ temp' = File(<<FIELDNAMES>>)
    /\ seen_urls' = {}
    /\ saveIdx' = 1
    /\ savePc' = "rows"
    /\ UNCHANGED <<orphans, results, dirOK, dest, saveRet, offered, dest0, destAtCall,
                   faultAt, removeFailed, saveCalls, savedLen, cleanSaves, firstOut>>

\* a loop that writes each row to the destination as well (no temp-then-rename)
SaveWriteRow_InPlace ==
    /\ savePc = "rows"
    /\ saveIdx <= Len(results)
    /\ LET result == results[saveIdx] IN
          IF result["url"] \in seen_urls
          THEN UNCHANGED <<temp, seen_urls, dest>>
          ELSE /\ seen_urls' = seen_urls \cup {result["url"]}
               /\ temp' = File(Append(temp.lines, CsvRow(result)))
               /\ dest' = File(Append(temp.lines, CsvRow(result)))
    /\ saveIdx' = saveIdx + 1
    /\ UNCHANGED <<orphans, results, dirOK, savePc, saveRet, offered, dest0,
                   destAtCall, faultAt, removeFailed, saveCalls, savedLen, cleanSaves, firstOut>>

\* a loop without the seen_urls test
SaveWriteRow_NoDedup ==
    /\ savePc = "rows"
    /\ saveIdx <= Len(results)
    /\ seen_urls' = seen_urls \cup {results[saveIdx]["url"]}
    /\ temp' = File(Append(temp.lines, CsvRow(results[saveIdx])))
    /\ saveIdx' = saveIdx + 1
    /\ UNCHANGED <<orphans, results, dirOK, dest, savePc, saveRet, offered, dest0,
                   destAtCall, faultAt, removeFailed, saveCalls, savedLen, cleanSaves, firstOut>>

\* one iteration of "for result in self.results"
SaveWriteRow ==
    /\ savePc = "rows"
    /\ saveIdx <= Len(results)
    /\ LET result == results[saveIdx] IN
          IF result["url"] \in seen_urls
          THEN UNCHANGED <<temp, seen_urls>>
          ELSE /\ seen_urls' = seen_urls \cup {result["url"]}
               /\ temp' = File(Append(temp.lines, CsvRow(result)))
    /\ saveIdx' = saveIdx + 1
    /\ UNCHANGED <<orphans, results, dirOK, dest, savePc, saveRet, offered, dest0,
                   destAtCall, faultAt, removeFailed, saveCalls, savedLen, cleanSaves, firstOut>>

\* the loop is over: the file is closed, os.replace succeeds, save() returns True
SaveReplace ==
    /\ savePc = "rows"
    /\ saveIdx > Len(results)
    /\ dest' = OsReplace(temp, dest)
    /\ temp' = Absent
    /\ savePc' = "idle"
    /\ saveRet' = "True"
    /\ savedLen' = Len(results)
    /\ cleanSaves' = cleanSaves + 1
    /\ firstOut' = IF cleanSaves = 0 THEN OsReplace(temp, dest) ELSE firstOut
    /\ UNCHANGED <<orphans, results, dirOK, saveIdx, seen_urls, offered, dest0,
                   destAtCall, faultAt, removeFailed, saveCalls>>

\* a save() whose handler returns False without removing the temp file
SaveFail_NoCleanup(removed) ==
    /\ savePc \in {"makedirs", "mkstemp", "header", "rows"}
    /\ temp' = Absent
    /\ orphans' = IF temp.exists THEN orphans + 1 ELSE orphans
    /\ savePc' = "idle"
    /\ saveRet' = "False"
    /\ faultAt' = IF savePc = "rows" /\ saveIdx > Len(results) THEN "replace" ELSE savePc
    /\ removeFailed' = (temp.exists /\ ~removed)
    /\ UNCHANGED <<results, dirOK, dest, saveIdx, seen_urls, offered, dest0,
                   destAtCall, saveCalls, savedLen, cleanSaves, firstOut>>

\* the step save() is at raises: the inner handler removes the temp file (if
\* one was made; os.remove may fail too, which is swallowed), the outer one
\* returns False
SaveFail(removed) ==
    /\ savePc \in {"makedirs", "mkstemp", "header", "rows"}
    /\ temp' = Absent
    /\ orphans' = IF temp.exists /\ ~removed THEN orphans + 1 ELSE orphans
    /\ savePc' = "idle"
    /\ saveRet' = "False"
    /\ faultAt' = IF savePc = "rows" /\ saveIdx > Len(results) THEN "replace" ELSE savePc
    /\ removeFailed' = (temp.exists /\ ~removed)
    /\ UNCHANGED <<results, dirOK, dest, saveIdx, seen_urls, offered, dest0,
                   destAtCall, saveCalls, savedLen, cleanSaves, firstOut>>

\* the process is shut down (main.py's handle_shutdown, or a kill): nothing
\* of it runs any more, the files stay as they are
Shutdown ==
    /\ savePc # "down"
    /\ savePc' = "down"
    /\ UNCHANGED <<orphans, results, dirOK, dest, temp, saveIdx, seen_urls, saveRet,
                   offered, dest0, destAtCall, faultAt, removeFailed, saveCalls, savedLen,
                   cleanSaves, firstOut>>

\* a new CsvStorage with no crawl running
StoreAlone == StoreInit /\ CrawlIdle /\ NoMain

StoreNext ==
    \/ \E result \in OfferedRecords : AddResultCall(result) /\ UNCHANGED <<crawlVars, mainVars>>
    \/ SaveCall /\ UNCHANGED <<crawlVars, mainVars>>
    \/ SaveMakedirs /\ UNCHANGED <<crawlVars, mainVars>>
    \/ SaveMkstemp /\ UNCHANGED <<crawlVars, mainVars>>
    \/ SaveWriteHeader /\ UNCHANGED <<crawlVars, mainVars>>
    \/ SaveWriteRow /\ UNCHANGED <<crawlVars, mainVars>>
    \/ SaveReplace /\ UNCHANGED <<crawlVars, mainVars>>
    \/ \E removed \in BOOLEAN : SaveFail(removed) /\ UNCHANGED <<crawlVars, mainVars>>
    \/ Shutdown /\ UNCHANGED <<crawlVars, mainVars>>

\* CsvStorage driven through its two methods, with I/O faults and shutdown
StoreSpec == StoreAlone /\ [][StoreNext]_vars

----------------------------------------------------------------------------
(* urllib.parse.urlparse on the URLs of the model *)

\* a list element that is not a str (crawl does not check its argument)
NonStrUrl == "<int 5>"

\* an https URL of 2049 characters: "https://a.com/" and 2035 more
LongUrl == "https://a.com/<2049 chars>"

\* every URL of the model
AllUrls == { "https://a.com/", "http://b.org/x", "ftp://a.com/f",
             "https:///nohost", "a.com/page", "", " ", LongUrl, NonStrUrl }

\* len(url)
UrlLen(url) ==
    CASE url = ""                -> 0
      [] url = " "               -> 1
      [] url = "https://a.com/"  -> 14
      [] url = "http://b.org/x"  -> 14
      [] url = "ftp://a.com/f"   -> 13
      [] url = "https:///nohost" -> 15
      [] url = "a.com/page"      -> 10
      [] url = LongUrl           -> 2049

IsStr(url) == url # NonStrUrl

\* urlparse(url).scheme
UrlScheme(url) ==
    CASE url = "https://a.com/"  -> "https"
      [] url = LongUrl           -> "https"
      [] url = "http://b.org/x"  -> "http"
      [] url = "ftp://a.com/f"   -> "ftp"
      [] url = "https:///nohost" -> "https"
      [] url = "http://proxy.example.com:8080"   -> "http"
      [] url = "https://secure.example.com:443"  -> "https"
      [] url = "socks5://socks.example.com:1080" -> "socks5"
      [] url = "ftp://proxy.example.com"         -> "ftp"
      [] url = "http://"                         -> "http"
      [] url = "http://:8080"                    -> "http"
      [] OTHER                   -> ""

\* urlparse(url).netloc
UrlNetloc(url) ==
    CASE url = "https://a.com/"  -> "a.com"
      [] url = LongUrl           -> "a.com"
      [] url = "http://b.org/x"  -> "b.org"
      [] url = "ftp://a.com/f"   -> "a.com"
      [] url = "http://proxy.example.com:8080"   -> "proxy.example.com:8080"
      [] url = "https://secure.example.com:443"  -> "secure.example.com:443"
      [] url = "socks5://socks.example.com:1080" -> "socks.example.com:1080"
      [] url = "ftp://proxy.example.com"         -> "proxy.example.com"
      [] url = "//proxy.example.com:8080"        -> "proxy.example.com:8080"
      [] url = "http://:8080"                    -> ":8080"
      [] OTHER                   -> ""

\* url.strip()
Strip(url) ==
    IF url = " " THEN ""
    ELSE IF url = " https://a.com/ " THEN "https://a.com/"
    ELSE url

\* the arguments validate_proxy_url is called with
AllProxies == { "http://proxy.example.com:8080", "https://secure.example.com:443",
                "socks5://socks.example.com:1080", "ftp://proxy.example.com",
                "http://", "http://:8080", "//proxy.example.com:8080",
                "not-a-url", "", PyNone, NonStrUrl }

\* a validator that knows http and https only
validate_proxy_url_NoSocks(proxy_url) ==
    IF proxy_url \in {PyNone, ""} THEN PyNone
    ELSE IF ~IsStr(proxy_url) THEN PyNone
    ELSE IF UrlScheme(proxy_url) \notin {"http", "https"} THEN PyNone
    ELSE IF UrlNetloc(proxy_url) = "" THEN PyNone
    ELSE proxy_url

\* validate_proxy_url: None for a falsy argument; urlparse raises on an
\* argument that is no str, which the except clause turns into None
validate_proxy_url(proxy_url) ==
    IF proxy_url \in {PyNone, ""} THEN PyNone
    ELSE IF ~IsStr(proxy_url) THEN PyNone
    ELSE IF UrlScheme(proxy_url) \notin {"http", "https", "socks5"} THEN PyNone
    ELSE IF UrlNetloc(proxy_url) = "" THEN PyNone
    ELSE proxy_url

----------------------------------------------------------------------------
(* validators.py *)

\* what fetching {scheme}://{netloc}/robots.txt can yield
\* (urllib.robotparser: read() parses a file it gets, raises when the host
\* cannot be reached, the read times out or the bytes are not UTF-8, sets
\* allow_all on 404 and the other 4xx, disallow_all on 401 and 403, and
\* leaves the parser unread on 5xx, where can_fetch answers False)
RobotsOracle == {"allow", "disallow", "unreadable", "absent", "denied", "server_error"}

\* rp.read() gets an answer only from a URL urllib can open
RobotsReadable(url) ==
    /\ UrlScheme(url) \in {"http", "https", "ftp"}
    /\ UrlNetloc(url) # ""

\* an HTTP status answers only a request made over HTTP
HttpStatusAnswer(url, oracle) ==
    /\ UrlScheme(url) \in {"http", "https"}
    /\ oracle \in {"absent", "denied", "server_error"}

\* check_robots_txt(url): what rp.can_fetch returns when rp.read() returned,
\* True when anything raised
check_robots_txt(url, oracle) ==
    IF ~IsStr(url) THEN TRUE
    ELSE IF ~RobotsReadable(url) THEN TRUE
    ELSE IF oracle = "disallow" THEN FALSE
    ELSE IF HttpStatusAnswer(url, oracle) /\ oracle \in {"denied", "server_error"}
         THEN FALSE
    ELSE TRUE

\* the calls of check_robots_txt(url): urlparse raises on a non-str, and
\* rp.read() goes to the network only for a URL urllib can open
RobotsCalls(url) ==
    IF IsStr(url) /\ RobotsReadable(url)
    THEN <<"check_robots_txt", "rp.read">>
    ELSE <<"check_robots_txt">>

----------------------------------------------------------------------------
(* parser.py: ContentParser *)

SUSPICION_THRESHOLD == 5

CONFIDENCE_HIGH == 85

CONFIDENCE_LOW == 15

\* a body that response.text() returns: its length, whether it is only
\* whitespace, the number of <div class="content">, and whether <main> and
\* <article> occur
Page(size, blank, divs, main, article) ==
    [read |-> TRUE, parses |-> TRUE, size |-> size, blank |-> blank,
     content_divs |-> divs, has_main |-> main, has_article |-> article]

\* a body on which BeautifulSoup or one of its searches raises
Unparsable == [Page(200, FALSE, 0, FALSE, FALSE) EXCEPT !.parses = FALSE]

\* response.text() raises instead (a timeout, a broken connection)
ReadError ==
    [read |-> FALSE, parses |-> FALSE, size |-> 0, blank |-> FALSE,
     content_divs |-> 0, has_main |-> FALSE, has_article |-> FALSE]

\* the heuristic of web_crawler.py (lines 131-139) in analyze's place: few
\* markers are suspicious whatever else the page has, and the confidence is
\* high when the page is suspicious
analyze_MarkersOnly(html, url) ==
    IF html.size = 0
    THEN [url |-> url, suspicious |-> PyNone, confidence |-> 0,
          content_type |-> "empty", analysis |-> [note |-> "No content"]]
    ELSE IF ~html.parses
    THEN [url |-> url, suspicious |-> PyNone, confidence |-> 0,
          content_type |-> "error", analysis |-> [note |-> "str(e)"]]
    ELSE LET content_count == html.content_divs
             is_suspicious == content_count < SUSPICION_THRESHOLD
         IN [url |-> url,
             suspicious |-> IF is_suspicious THEN "True" ELSE "False",
             confidence |-> IF is_suspicious THEN CONFIDENCE_HIGH ELSE CONFIDENCE_LOW,
             content_type |-> IF content_count > 0 THEN "structured"
                              ELSE IF html.has_main \/ html.has_article THEN "semantic"
                              ELSE "unstructured",
             analysis |-> [content_divs |-> content_count, has_main |-> html.has_main,
                           has_article |-> html.has_article, html_size |-> html.size]]

\* the record analyze returns without parsing, with the given judgement
EmptyRecord(url, suspicious) ==
    [url |-> url, suspicious |-> suspicious, confidence |-> 0,
     content_type |-> "empty", analysis |-> [note |-> "No content"]]

\* analyze's try block (lines 42-95): the judgement of a page that is parsed
Classify(html, url) ==
    IF ~html.parses
    THEN [url |-> url, suspicious |-> PyNone, confidence |-> 0,
          content_type |-> "error", analysis |-> [note |-> "str(e)"]]
    ELSE LET content_count == html.content_divs
             has_main == html.has_main
             has_article == html.has_article
             is_suspicious == content_count < SUSPICION_THRESHOLD /\ ~has_main /\ ~has_article
             confidence == IF has_main \/ has_article THEN CONFIDENCE_HIGH ELSE CONFIDENCE_LOW
             content_type == IF content_count > 0 THEN "structured"
                             ELSE IF has_main \/ has_article THEN "semantic"
                             ELSE "unstructured"
         IN [url |-> url,
             suspicious |-> IF is_suspicious THEN "True" ELSE "False",
             confidence |-> confidence,
             content_type |-> content_type,
             analysis |-> [content_divs |-> content_count, has_main |-> has_main,
                           has_article |-> has_article, html_size |-> html.size]]

\* an analyze that tests "not html.strip()": whitespace counts as empty
analyze_StripFirst(html, url) ==
    IF html.size = 0 \/ html.blank THEN EmptyRecord(url, PyNone)
    ELSE Classify(html, url)

\* an analyze that calls an empty page benign
analyze_EmptyBenign(html, url) ==
    IF html.size = 0 THEN EmptyRecord(url, "False")
    ELSE Classify(html, url)

\* ContentParser.analyze(html, url)
analyze(html, url) ==
    IF html.size = 0 THEN EmptyRecord(url, PyNone)
    ELSE Classify(html, url)

----------------------------------------------------------------------------
(* fetcher.py: HttpFetcher *)

MAX_PAGE_SIZE == 5 * 1024 * 1024

\* a validator that looks at the scheme only
is_valid_url_SchemeOnly(url) == UrlScheme(url) \in {"http", "https"}

\* is_valid_url(url)
is_valid_url(url) ==
    IF ~(UrlScheme(url) \in {"http", "https"}) THEN FALSE
    ELSE IF UrlNetloc(url) = "" THEN FALSE
    ELSE TRUE

\* the ways session.get(...) can answer: an exception, or a 2xx response
\* with some Content-Length header
GetKinds == {"timeout", "client_error", "cl_absent", "cl_empty", "cl_small",
             "cl_at_cap", "cl_over_cap", "cl_garbage"}

\* the exceptions of aiohttp and asyncio that session.get and
\* raise_for_status raise (non-2xx is a ClientResponseError)
IsException(kind) == kind \in {"timeout", "client_error"}

\* response.headers.get('Content-Length') is truthy
HeaderTruthy(kind) == kind \in {"cl_small", "cl_at_cap", "cl_over_cap", "cl_garbage"}

\* int(content_length) raises ValueError
HeaderUnparsable(kind) == kind = "cl_garbage"

\* int(content_length)
HeaderInt(kind) ==
    CASE kind = "cl_small"    -> 100
      [] kind = "cl_at_cap"   -> MAX_PAGE_SIZE
      [] kind = "cl_over_cap" -> MAX_PAGE_SIZE + 1

\* every answer of response.text() in the model
AllPages == { ReadError, Unparsable,
              Page(0, FALSE, 0, FALSE, FALSE),
              Page(3, TRUE, 0, FALSE, FALSE),
              Page(200, FALSE, 0, FALSE, FALSE),
              Page(200, FALSE, 0, TRUE, FALSE),
              Page(200, FALSE, 0, FALSE, TRUE),
              Page(200, FALSE, 4, FALSE, FALSE),
              Page(200, FALSE, 5, FALSE, FALSE),
              Page(200, FALSE, 6, FALSE, FALSE),
              Page(200, FALSE, 6, TRUE, TRUE),
              Page(MAX_PAGE_SIZE, FALSE, 1, FALSE, FALSE),
              Page(MAX_PAGE_SIZE + 1, FALSE, 1, FALSE, FALSE) }

\* fetch_url's return value
FetchResult(url, html, status, error) ==
    [url |-> url, html |-> html, status |-> status, error |-> error]

RECURSIVE Pow2(_)
\* 2 ** attempt
Pow2(n) == IF n <= 0 THEN 1 ELSE 2 * Pow2(n - 1)

\* a backoff that does not grow with the attempt
Backoff_Flat(a) == rate_limit

\* backoff = self.rate_limit * (2 ** attempt)
Backoff(a) == rate_limit * Pow2(a)

----------------------------------------------------------------------------
(* crawler.py: WebCrawler *)

Tasks == 1..Len(urls)

\* a record without classification that nevertheless calls the URL benign
Synth_Benign(url, content_type) ==
    [url |-> url, suspicious |-> "False", confidence |-> 0, content_type |-> content_type]

\* the record _crawl_single_url makes when there is no classification
Synth(url, content_type) ==
    [url |-> url, suspicious |-> PyNone, confidence |-> 0, content_type |-> content_type]

\* how a step of a pipeline ends: at its next await, or with the records
\* it passed to storage.add_result and the value it returned
Finish(rec, retv) == [kind |-> "done", recs |-> <<rec>>, ret |-> retv, calls |-> <<>>]

Await(kind) == [kind |-> kind, recs |-> <<>>, calls |-> <<>>]

\* the step "out" after the calls "before"
After(before, out) == [out EXCEPT !.calls = before \o @]

\* a non-success fetch stored under the one tag "error"
NoSuccess_ErrorTag(url, status, error) ==
    Finish(Synth(url, "error"), FetchResult(url, PyNone, status, error))

\* fetch_url of a non-success status, as _crawl_single_url handles it
\* (lines 120-128): the record is stored, the fetch result is returned
NoSuccess(url, status, error) ==
    Finish(Synth(url, status), FetchResult(url, PyNone, status, error))

\* a handler that logs the exception and stores nothing
Raised_NoStore(url) ==
    [kind |-> "done", recs |-> <<>>, ret |-> Synth(url, "error"), calls |-> <<>>]

\* a handler that cannot tell which URL failed (as crawl's filter, line 84)
Raised_Unknown(url) == Finish(Synth("unknown", "error"), Synth("unknown", "error"))

\* an exception that reaches _crawl_single_url's handler (lines 139-149)
Raised(url) == Finish(Synth(url, "error"), Synth(url, "error"))

\* a loop that backs off and tries again after its last attempt too
Transient_OffByOne(url, a) ==
    IF a < max_retries
    THEN Await("sleep")
    ELSE NoSuccess(url, "failed", "Max retries exceeded")

\* an attempt that raised inside fetch_url's loop: back off and go on, or,
\* after the last attempt, leave the loop with status failed
Transient(url, a) ==
    IF a < max_retries - 1
    THEN Await("sleep")
    ELSE NoSuccess(url, "failed", "Max retries exceeded")

\* a pipeline that asks the robots gate and fetches whatever it answers
Begin_IgnoreRobots(url, oracle) ==
    After(RobotsCalls(url) \o <<"fetch_url">>,
        IF ~IsStr(url) THEN Raised(url)
        ELSE IF url = "" \/ Strip(url) = "" THEN NoSuccess(url, "error", "Empty URL")
        ELSE After(<<"is_valid_url">>,
            IF ~is_valid_url(url) THEN NoSuccess(url, "error", "Invalid URL format")
            ELSE IF max_retries <= 0
                 THEN NoSuccess(url, "failed", "Max retries exceeded")
            ELSE After(<<"session.get">>, Await("get"))))

\* a fetch_url that goes to its loop without calling is_valid_url
Begin_NoValidate(url, oracle) ==
    After(RobotsCalls(url),
        IF ~check_robots_txt(url, oracle)
        THEN Finish(Synth(url, "disallowed"), Synth(url, "disallowed"))
        ELSE After(<<"fetch_url">>,
            IF ~IsStr(url) THEN Raised(url)
            ELSE IF url = "" \/ Strip(url) = "" THEN NoSuccess(url, "error", "Empty URL")
            ELSE IF max_retries <= 0
                 THEN NoSuccess(url, "failed", "Max retries exceeded")
            ELSE After(<<"session.get">>, Await("get"))))

\* a fetch_url whose loop makes its first attempt before it looks at
\* max_retries
Begin_AtLeastOnce(url, oracle) ==
    After(RobotsCalls(url),
        IF ~check_robots_txt(url, oracle)
        THEN Finish(Synth(url, "disallowed"), Synth(url, "disallowed"))
        ELSE After(<<"fetch_url">>,
            IF ~IsStr(url) THEN Raised(url)
            ELSE IF url = "" \/ Strip(url) = "" THEN NoSuccess(url, "error", "Empty URL")
            ELSE After(<<"is_valid_url">>,
                IF ~is_valid_url(url) THEN NoSuccess(url, "error", "Invalid URL format")
                ELSE After(<<"session.get">>, Await("get")))))

\* _crawl_single_url from its start to its first await
Begin(url, oracle) ==
    After(RobotsCalls(url),
        IF ~check_robots_txt(url, oracle)
        THEN Finish(Synth(url, "disallowed"), Synth(url, "disallowed"))
        ELSE After(<<"fetch_url">>,
            IF ~IsStr(url) THEN Raised(url)
            ELSE IF url = "" \/ Strip(url) = "" THEN NoSuccess(url, "error", "Empty URL")
            ELSE After(<<"is_valid_url">>,
                IF ~is_valid_url(url) THEN NoSuccess(url, "error", "Invalid URL format")
                ELSE IF max_retries <= 0
                     THEN NoSuccess(url, "failed", "Max retries exceeded")
                ELSE After(<<"session.get">>, Await("get")))))

\* a fetch that reads the body whatever length the server advertises
OnGet_NoHeaderCheck(url, a, kind) ==
    IF IsException(kind) THEN Transient(url, a)
    ELSE After(<<"response.text">>, Await("read"))

\* a fetch that takes a Content-Length it cannot read for a page too large
OnGet_GarbageRejected(url, a, kind) ==
    IF IsException(kind) THEN Transient(url, a)
    ELSE IF HeaderTruthy(kind) /\ HeaderUnparsable(kind)
         THEN NoSuccess(url, "rejected", "Content too large")
    ELSE IF HeaderTruthy(kind) /\ HeaderInt(kind) > MAX_PAGE_SIZE
         THEN NoSuccess(url, "rejected", "Content too large")
    ELSE After(<<"response.text">>, Await("read"))

\* fetch_url from the answer of session.get to the next await
OnGet(url, a, kind) ==
    IF IsException(kind) THEN Transient(url, a)
    ELSE IF HeaderTruthy(kind) /\ HeaderUnparsable(kind) THEN Transient(url, a)
    ELSE IF HeaderTruthy(kind) /\ HeaderInt(kind) > MAX_PAGE_SIZE
         THEN NoSuccess(url, "rejected", "Content too large")
    ELSE After(<<"response.text">>, Await("read"))

\* from the answer of response.text() to the end of the pipeline or the
\* next await
OnRead(url, a, body) ==
    IF ~body.read THEN Transient(url, a)
    ELSE IF body.size > MAX_PAGE_SIZE THEN NoSuccess(url, "rejected", "Page too large")
    ELSE After(<<"analyze">>, Finish(analyze(body, url), analyze(body, url)))

\* appends that run into one another: the record of one call takes the
\* place of the record appended last
AddAll_LostUpdate(res, recs) ==
    IF recs = <<>> \/ res = <<>> THEN res \o recs
    ELSE SubSeq(res, 1, Len(res) - 1) \o recs

RECURSIVE AddAll(_, _)
\* storage.add_result for each record of a sequence, in order
AddAll(res, recs) ==
    IF recs = <<>> THEN res ELSE AddAll(add_result(res, Head(recs)), Tail(recs))

\* a semaphore that admits everyone (tasks gathered with no gate)
MayAcquire_NoGate(t) == TRUE

\* "async with semaphore": the semaphores of asyncio admit in the order of
\* arrival, which is the order gather starts the tasks in
MayAcquire(t) ==
    /\ sem > 0
    /\ \A s \in 1..(t - 1) : pc[s] # "waiting"

\* a pipeline that ends without giving its slot back
Advance_KeepsSlot(t, out, acquired) ==
    /\ pc' = [pc EXCEPT ![t] = out.kind]
    /\ sem' = sem - acquired
    /\ results' = AddAll(results, out.recs)
    /\ handed' = [handed EXCEPT ![t] = @ \o out.recs]
    /\ calls' = [calls EXCEPT ![t] = @ \o out.calls]
    /\ ret' = IF out.kind = "done" THEN [ret EXCEPT ![t] = out.ret] ELSE ret
    /\ gets' = IF out.kind = "get" THEN [gets EXCEPT ![t] = @ + 1] ELSE gets
    /\ sleeps' = IF out.kind = "sleep"
                 THEN [sleeps EXCEPT ![t] = Append(@, Backoff(attempt[t]))]
                 ELSE sleeps
    /\ via' = IF out.kind = "get" THEN [via EXCEPT ![t] = @ \cup {proxy}] ELSE via
    /\ UNCHANGED <<urls, max_concurrent, max_retries, rate_limit, crawlRet,
                   robotsKinds, replyKinds, pages, proxy_given, proxy, storeRest>>

\* a pipeline that gives its slot back when it goes to sleep between two
\* attempts (the semaphore taken around the attempt, not around the URL)
Advance_ReleaseOnSleep(t, out, acquired) ==
    /\ pc' = [pc EXCEPT ![t] = out.kind]
    /\ sem' = sem - acquired + (IF out.kind \in {"done", "sleep"} THEN 1 ELSE 0)
    /\ results' = AddAll(results, out.recs)
    /\ handed' = [handed EXCEPT ![t] = @ \o out.recs]
    /\ calls' = [calls EXCEPT ![t] = @ \o out.calls]
    /\ ret' = IF out.kind = "done" THEN [ret EXCEPT ![t] = out.ret] ELSE ret
    /\ gets' = IF out.kind = "get" THEN [gets EXCEPT ![t] = @ + 1] ELSE gets
    /\ sleeps' = IF out.kind = "sleep"
                 THEN [sleeps EXCEPT ![t] = Append(@, Backoff(attempt[t]))]
                 ELSE sleeps
    /\ via' = IF out.kind = "get" THEN [via EXCEPT ![t] = @ \cup {proxy}] ELSE via
    /\ UNCHANGED <<urls, max_concurrent, max_retries, rate_limit, crawlRet,
                   robotsKinds, replyKinds, pages, proxy_given, proxy, storeRest>>

\* the effect of a step of pipeline t that ends as "out" says; "acquired"
\* is 1 in the step that takes the semaphore.  Leaving the "async with"
\* releases it, and a record goes through add_result.
Advance(t, out, acquired) ==
    /\ pc' = [pc EXCEPT ![t] = out.kind]
    /\ sem' = sem - acquired + (IF out.kind = "done" THEN 1 ELSE 0)
    /\ results' = AddAll(results, out.recs)
    /\ handed' = [handed EXCEPT ![t] = @ \o out.recs]
    /\ calls' = [calls EXCEPT ![t] = @ \o out.calls]
    /\ ret' = IF out.kind = "done" THEN [ret EXCEPT ![t] = out.ret] ELSE ret
    /\ gets' = IF out.kind = "get" THEN [gets EXCEPT ![t] = @ + 1] ELSE gets
    /\ sleeps' = IF out.kind = "sleep"
                 THEN [sleeps EXCEPT ![t] = Append(@, Backoff(attempt[t]))]
                 ELSE sleeps
    /\ via' = IF out.kind = "get" THEN [via EXCEPT ![t] = @ \cup {proxy}] ELSE via
    /\ UNCHANGED <<urls, max_concurrent, max_retries, rate_limit, crawlRet,
                   robotsKinds, replyKinds, pages, proxy_given, proxy, storeRest>>

\* a wait that keeps the whole event loop busy, as time.sleep would: the
\* backoff sleeps too
LoopHeldBy_SleepBlocks == {t \in Tasks : pc[t] \in {"robots", "sleep"}}

\* the pipelines that keep the event loop to themselves while they wait.
\* session.get, response.text() and asyncio.sleep are awaited, which gives
\* the loop to the other pipelines; check_robots_txt is an ordinary call
\* whose rp.read() (urllib, up to 5 seconds) returns before anything else
\* of the loop runs
LoopHeldBy == {t \in Tasks : pc[t] = "robots"}

\* the event loop can run a step of pipeline t
LoopRuns(t) == LoopHeldBy \subseteq {t}

\* a pipeline passes the semaphore and calls check_robots_txt
Admit(t) ==
    /\ crawlRet = NotYet
    /\ pc[t] = "waiting"
    /\ LoopRuns(t)
    /\ MayAcquire(t)
    /\ Advance(t, Await("robots"), 1)
    /\ UNCHANGED <<attempt, replies, gate, robots, bodyRead>>

\* rp.read() is over, check_robots_txt answers and the pipeline runs to its
\* first await
RobotsReply(t, oracle) ==
    /\ pc[t] = "robots"
    /\ Advance(t, Begin(urls[t], oracle), 0)
    /\ oracle \in robotsKinds
    /\ gate' = [gate EXCEPT ![t] =
                  IF check_robots_txt(urls[t], oracle) THEN "True" ELSE "False"]
    /\ robots' = [robots EXCEPT ![t] =
                    IF ~IsStr(urls[t]) \/ ~RobotsReadable(urls[t]) THEN "unreadable"
                    ELSE IF oracle \in {"absent", "denied", "server_error"}
                            /\ ~HttpStatusAnswer(urls[t], oracle) THEN "unreadable"
                    ELSE oracle]
    /\ UNCHANGED <<attempt, replies, bodyRead>>

\* session.get answers
GetReply(t, kind) ==
    /\ pc[t] = "get"
    /\ LoopRuns(t)
    /\ kind \in replyKinds
    /\ Advance(t, OnGet(urls[t], attempt[t], kind), 0)
    /\ replies' = [replies EXCEPT ![t] = Append(@, kind)]
    /\ UNCHANGED <<attempt, gate, robots, bodyRead>>

\* response.text() answers
ReadReply(t, body) ==
    /\ pc[t] = "read"
    /\ LoopRuns(t)
    /\ body \in pages
    /\ Advance(t, OnRead(urls[t], attempt[t], body), 0)
    /\ replies' = [replies EXCEPT ![t] =
                      [@ EXCEPT ![Len(@)] =
                          IF ~body.read THEN "read_error"
                          ELSE IF body.size > MAX_PAGE_SIZE THEN "body_over_cap"
                          ELSE IF body.size > 0 /\ ~body.parses THEN "parse_error"
                          ELSE "success"]]
    /\ bodyRead' = [bodyRead EXCEPT ![t] = body]
    /\ UNCHANGED <<attempt, gate, robots>>

\* asyncio.sleep(backoff) is over: the loop goes to its next attempt
Wake(t) ==
    /\ pc[t] = "sleep"
    /\ LoopRuns(t)
    /\ attempt' = [attempt EXCEPT ![t] = @ + 1]
    /\ Advance(t, After(<<"session.get">>, Await("get")), 0)
    /\ UNCHANGED <<replies, gate, robots, bodyRead>>

\* a result list in the opposite order of the input
CrawlResults_Reversed == [t \in Tasks |-> ret[Len(urls) + 1 - t]]

\* crawl's result list: gather's results in input order (no pipeline lets
\* an exception out, so the filter of lines 78-91 keeps every element)
CrawlResults == [t \in Tasks |-> ret[t]]

\* gather is done (or the list was empty): crawl returns
CrawlReturn ==
    /\ crawlRet = NotYet
    /\ \A t \in Tasks : pc[t] = "done"
    /\ crawlRet' = [list |-> CrawlResults]
    /\ UNCHANGED <<urls, max_concurrent, max_retries, rate_limit, sem, pc,
                   attempt, ret, replyKinds, pages, gets, replies, sleeps,
                   handed, calls, gate, robotsKinds, robots, bodyRead,
                   proxy_given, proxy, via, storeVars>>

\* a crawl that hands its proxy argument on as it came
CrawlProxy_Unchecked(proxy_url) == proxy_url

\* proxy = validate_proxy_url(proxy) if proxy else None
CrawlProxy(proxy_url) ==
    IF proxy_url \in {PyNone, ""} THEN PyNone ELSE validate_proxy_url(proxy_url)

\* crawl(urls, proxy, storage=storage) is called on a fresh store
CrawlInit(lengths, urlSet, ceilings, retrySet, rates, oracles, kinds, bodies, proxies) ==
    /\ StoreInitAt({<<TRUE, Absent>>})
    /\ urls \in UNION {[1..n -> urlSet] : n \in lengths}
    /\ max_concurrent \in ceilings
    /\ max_retries \in retrySet
    /\ rate_limit \in rates
    /\ sem = max_concurrent
    /\ pc = [t \in Tasks |-> "waiting"]
    /\ attempt = [t \in Tasks |-> 0]
    /\ ret = [t \in Tasks |-> NotYet]
    /\ crawlRet = NotYet
    /\ replyKinds = kinds
    /\ pages = bodies
    /\ gets = [t \in Tasks |-> 0]
    /\ replies = [t \in Tasks |-> <<>>]
    /\ sleeps = [t \in Tasks |-> <<>>]
    /\ handed = [t \in Tasks |-> <<>>]
    /\ calls = [t \in Tasks |-> <<>>]
    /\ gate = [t \in Tasks |-> PyNone]
    /\ robotsKinds = oracles
    /\ robots = [t \in Tasks |-> PyNone]
    /\ bodyRead = [t \in Tasks |-> NotYet]
    /\ proxy_given \in proxies
    /\ proxy = CrawlProxy(proxy_given)
    /\ via = [t \in Tasks |-> {}]

\* crawl called directly, with no main() around it
CrawlAlone(lengths, urlSet, ceilings, retrySet, rates, oracles, kinds, bodies) ==
    /\ CrawlInit(lengths, urlSet, ceilings, retrySet, rates, oracles, kinds, bodies,
                 {PyNone})
    /\ NoMain

CrawlNext ==
    \/ \E t \in Tasks : Admit(t) /\ UNCHANGED mainVars
    \/ \E t \in Tasks, oracle \in RobotsOracle : RobotsReply(t, oracle) /\ UNCHANGED mainVars
    \/ \E t \in Tasks, kind \in GetKinds : GetReply(t, kind) /\ UNCHANGED mainVars
    \/ \E t \in Tasks, body \in AllPages : ReadReply(t, body) /\ UNCHANGED mainVars
    \/ \E t \in Tasks : Wake(t) /\ UNCHANGED mainVars
    \/ CrawlReturn /\ UNCHANGED mainVars

\* crawl over a list of URLs (one valid, one of invalid format, one that is
\* no string), under every ceiling, with a network that times out or serves
\* a page, which the parser may fail on
Spec ==
    /\ CrawlAlone(0..NumUrls,
                 {"https://a.com/", "a.com/page", NonStrUrl},
                 1..MaxConcurrent,
                 1..MaxRetriesBound,
                 {5},
                 {"allow", "disallow"},
                 {"timeout", "cl_absent"},
                 {Page(200, FALSE, 6, TRUE, TRUE), Unparsable})
    /\ [][CrawlNext]_vars

\* crawl under a fair scheduler and a network whose every operation ends:
\* a step that can be taken is taken in the end
LiveSpec ==
    /\ CrawlAlone(0..MainUrls,
                  {"https://a.com/", "a.com/page"},
                  1..MaxConcurrent,
                  {0, MaxRetriesBound},
                  {5},
                  {"allow", "disallow"},
                  {"timeout", "cl_absent"},
                  {Page(200, FALSE, 6, TRUE, TRUE)})
    /\ [][CrawlNext]_vars
    /\ WF_vars(CrawlNext)

\* crawl of a single URL of any shape, with every retry setting and
\* everything the network can do
FetchSpec ==
    /\ CrawlAlone({1}, AllUrls, {1}, (0 - 1)..MaxFetchRetries, {1, 5}, RobotsOracle,
                 GetKinds, AllPages)
    /\ [][CrawlNext]_vars

----------------------------------------------------------------------------
(* main.py: configuration, crawl, save, exit status *)

\* the number of pipelines main's crawler admits at a time
MAX_CONCURRENT_REQUESTS == 5

\* the entries START_URLS can hold between its commas
MainEntries == { "https://a.com/", " https://a.com/ ", "a.com/page",
                 "ftp://a.com/f", " " }

\* the values PROXY_URL can have: unset, a proxy, something that is none
MainProxies == {"", "http://proxy.example.com:8080", "ftp://proxy.example.com"}

\* proxy=proxy_url or None
ProxyOrNone(proxy_url) == IF proxy_url = "" THEN PyNone ELSE proxy_url

\* urls = [url.strip() for url in urls if url.strip()]
MainFilter(raw) ==
    LET kept == SelectSeq(raw, LAMBDA u : Strip(u) # "")
    IN  [i \in 1..Len(kept) |-> Strip(kept[i])]

\* main() has installed its signal handlers and read its configuration;
\* the crawler and the store it is about to make are the fresh ones
MainInit ==
    /\ CrawlInit(0..MainUrls, {"https://a.com/", "a.com/page", "ftp://a.com/f"},
                 {MAX_CONCURRENT_REQUESTS}, {2}, {5}, {"allow", "disallow"},
                 {"timeout", "cl_absent"}, {Page(200, FALSE, 6, TRUE, TRUE)},
                 {ProxyOrNone(p) : p \in MainProxies})
    /\ start_urls \in UNION {[1..n -> MainEntries] : n \in 1..MainUrls}
    /\ urls = MainFilter(start_urls)
    /\ mainPc = "config"
    /\ exitStatus = PyNone
    /\ proxyLog = <<>>

\* "if not urls: sys.exit(1)", else asyncio.run(crawler.crawl(urls, ...))
MainStart ==
    /\ mainPc = "config"
    /\ IF urls = <<>>
       THEN mainPc' = "exited" /\ exitStatus' = "1"
       ELSE mainPc' = "crawl" /\ UNCHANGED exitStatus
    /\ UNCHANGED <<start_urls, proxyLog, crawlVars, storeVars>>

\* a step of the crawl main is waiting for
MainCrawl(step) ==
    /\ mainPc = "crawl"
    /\ step
    /\ UNCHANGED mainVars

\* a main that saves as soon as one pipeline has ended
MainSave_Early ==
    /\ mainPc = "crawl"
    /\ \E t \in Tasks : pc[t] = "done"
    /\ SaveCall
    /\ mainPc' = "save"
    /\ UNCHANGED <<exitStatus, start_urls, proxyLog, crawlVars>>

\* crawl has returned a list that is not empty (it has one element per URL,
\* and main has left already when there is no URL): storage.save() is called
MainSave ==
    /\ mainPc = "crawl"
    /\ crawlRet # NotYet
    /\ crawlRet.list # <<>>
    /\ SaveCall
    /\ mainPc' = "save"
    /\ UNCHANGED <<exitStatus, start_urls, proxyLog, crawlVars>>

\* a step of storage.save()
MainSaving(step) ==
    /\ mainPc = "save"
    /\ step
    /\ UNCHANGED <<crawlVars, mainVars>>

\* save() has returned: sys.exit(0) if it returned True, else sys.exit(1)
MainExit ==
    /\ mainPc = "save"
    /\ savePc = "idle"
    /\ mainPc' = "exited"
    /\ exitStatus' = IF saveRet = "True" THEN "0" ELSE "1"
    /\ UNCHANGED <<start_urls, proxyLog, crawlVars, storeVars>>

\* SIGTERM or SIGINT arrives while main runs: handle_shutdown does
\* sys.exit(0), wherever the crawl or the save is
MainSignal ==
    /\ mainPc \in {"config", "crawl", "save"}
    /\ Shutdown
    /\ mainPc' = "exited"
    /\ exitStatus' = "0"
    /\ UNCHANGED <<start_urls, proxyLog, crawlVars>>

MainNext ==
    \/ MainStart
    \/ \E t \in Tasks : MainCrawl(Admit(t))
    \/ \E t \in Tasks, oracle \in RobotsOracle : MainCrawl(RobotsReply(t, oracle))
    \/ \E t \in Tasks, kind \in GetKinds : MainCrawl(GetReply(t, kind))
    \/ \E t \in Tasks, body \in AllPages : MainCrawl(ReadReply(t, body))
    \/ \E t \in Tasks : MainCrawl(Wake(t))
    \/ MainCrawl(CrawlReturn)
    \/ MainSave
    \/ MainSaving(SaveMakedirs)
    \/ MainSaving(SaveMkstemp)
    \/ MainSaving(SaveWriteHeader)
    \/ MainSaving(SaveWriteRow)
    \/ MainSaving(SaveReplace)
    \/ \E removed \in BOOLEAN : MainSaving(SaveFail(removed))
    \/ MainExit
    \/ MainSignal

\* the program run from its entry point, with START_URLS of up to MainUrls
\* entries, I/O faults in save() and a shutdown signal at any moment
MainSpec == MainInit /\ [][MainNext]_vars

----------------------------------------------------------------------------
(* validate_proxy_url called on a series of arguments *)

ProxyInit == StoreInitAt({<<TRUE, Absent>>}) /\ CrawlIdle /\ NoMain

\* validate_proxy_url(proxy_url) is called and returns
ValidateProxyCall(proxy_url) ==
    /\ Len(proxyLog) < MaxProxyCalls
    /\ proxyLog' = Append(proxyLog, [arg |-> proxy_url,
                                     ret |-> validate_proxy_url(proxy_url)])
    /\ UNCHANGED <<mainPc, exitStatus, start_urls, crawlVars, storeVars>>

ProxyNext == \E proxy_url \in AllProxies : ValidateProxyCall(proxy_url)

ProxySpec == ProxyInit /\ [][ProxyNext]_vars

----------------------------------------------------------------------------
(* Properties of CsvStorage, checked under StoreSpec *)

\* the records among those offered that have every required key
Accepted == SelectSeq(offered, LAMBDA r : required_keys \subseteq DOMAIN r)

\* the index in sequence recs of the first record with URL u
FirstIdx(recs, u) ==
    CHOOSE i \in 1..Len(recs) :
        /\ recs[i]["url"] = u
        /\ \A j \in 1..(i - 1) : recs[j]["url"] # u

\* the records save() had before it when it last replaced the destination
SavedRecs == SubSeq(results, 1, savedLen)

\* the data rows of the destination
DestRows == Tail(dest.lines)

\* the last save() returned True and the destination is its output
Saved == savePc = "idle" /\ saveRet = "True"

\* C3: when a step of save() fails (directory creation, temp-file creation,
\* header or row writing, the rename), save() returns False and the
\* destination file is exactly what it was when save() was called.
C3_FailedSaveLeavesDest ==
    (savePc = "idle" /\ faultAt # "none") =>
        /\ saveRet = "False"
        /\ dest = destAtCall

\* a save() failed at the rename, after every row had been written to the
\* temp file, with an older file at the destination
C3_Witness ==
    /\ savePc = "idle"
    /\ faultAt = "replace"
    /\ Len(results) >= 2
    /\ dest = OldFile

\* the complete output for the records save() last had before it
C4_Complete(d) ==
    /\ d.exists
    /\ Len(d.lines) >= 1
    /\ d.lines[1] = FIELDNAMES
    /\ LET rows == Tail(d.lines) IN
          /\ {rows[i][1] : i \in 1..Len(rows)} = {SavedRecs[i]["url"] : i \in 1..savedLen}
          /\ \A i \in 1..Len(rows) : rows[i] = CsvRow(SavedRecs[FirstIdx(SavedRecs, rows[i][1])])
          /\ \A i, j \in 1..Len(rows) : i # j => rows[i][1] # rows[j][1]

C4_State ==
    /\ dest = dest0 \/ C4_Complete(dest)
    /\ saveCalls = 0 => dest = dest0

C4_Step ==
    dest' # dest =>
        /\ savePc = "rows"
        /\ saveIdx > Len(results)
        /\ savePc' = "idle"
        /\ saveRet' = "True"

\* C4: in every state (between add_result calls, at every step of save(),
\* after a failure or a shutdown at any step) the destination holds what it
\* held before the run or a complete output (header and every deduplicated
\* row); it changes only in the rename step that ends a successful save(),
\* and not before save() is called.
C4_DestNeverPartial == []C4_State /\ [][C4_Step]_vars

\* the process was shut down while save() had written the header and one
\* row to the temp file: the destination is still the old file
C4_Witness ==
    /\ savePc = "down"
    /\ temp.exists
    /\ Len(temp.lines) = 2
    /\ Len(results) >= 2
    /\ saveIdx <= Len(results)
    /\ dest = OldFile

\* C5: after add_result calls and a save(), the file has exactly one data
\* row for each distinct URL of the accepted records, the row renders the
\* fields of the first record accepted with that URL (as held by the store),
\* and the rows are in the order of first addition.
C5_OneRowPerUrlFirstWins ==
    Saved =>
        /\ dest.lines[1] = FIELDNAMES
        /\ \A i \in 1..savedLen :
              Cardinality({k \in 1..Len(DestRows) : DestRows[k][1] = SavedRecs[i]["url"]}) = 1
        /\ \A k \in 1..Len(DestRows) :
              /\ \E i \in 1..savedLen : SavedRecs[i]["url"] = DestRows[k][1]
              /\ DestRows[k] = CsvRow(SavedRecs[FirstIdx(SavedRecs, DestRows[k][1])])
        /\ \A k, m \in 1..Len(DestRows) :
              k < m => FirstIdx(SavedRecs, DestRows[k][1]) < FirstIdx(SavedRecs, DestRows[m][1])

\* three records were accepted, two with the same URL and different fields,
\* and written: two rows
C5_Witness ==
    /\ Saved
    /\ savedLen = 3
    /\ Len(DestRows) = 2
    /\ results[1]["url"] = results[3]["url"]
    /\ results[1] # results[3]
    /\ results[2]["url"] # results[1]["url"]

\* C6 as stated: the in-memory collection never holds two records with the
\* same URL.
C6_MemoryHoldsOnePerUrl ==
    \A i, j \in 1..Len(results) : i # j => results[i]["url"] # results[j]["url"]

\* C6 amended: add_result keeps every record that has the required keys,
\* also one whose URL is already held; the first-write-wins deduplication is
\* done by save(), so what is at most one per URL is the rows of the written
\* file.
C6_DedupAtSaveOnly ==
    /\ Len(results) = Len(Accepted)
    /\ \A i \in 1..Len(results) : results[i]["url"] = Accepted[i]["url"]
    /\ Saved => \A k, m \in 1..Len(DestRows) : k # m => DestRows[k][1] # DestRows[m][1]

\* the store holds two records with one URL, and the file written from it
\* has one row
C6_Witness ==
    /\ Saved
    /\ savedLen = 2
    /\ results[1]["url"] = results[2]["url"]
    /\ Len(DestRows) = 1

\* C7: a record accepted with confidence c is held with confidence
\* max(0, min(1, c)); so every record held and every row written has a
\* confidence in [0, 1], and a record out of range is kept, not dropped.
C7_ConfidenceClamped ==
    /\ Len(results) = Len(Accepted)
    /\ \A i \in 1..Len(results) :
          LET c == Accepted[i]["confidence"] IN
             /\ results[i]["confidence"] = (IF c < 0 THEN 0 ELSE IF c > ConfOne THEN ConfOne ELSE c)
             /\ results[i]["confidence"] \in 0..ConfOne
             /\ results[i]["url"] = Accepted[i]["url"]
    /\ Saved => \A k \in 1..Len(DestRows) : DestRows[k][3] \in {ToString(c) : c \in 0..ConfOne}

\* records with confidence 1.5 and -0.2 were accepted and written
C7_Witness ==
    /\ Saved
    /\ \E i, j \in 1..Len(Accepted) :
          /\ Accepted[i]["confidence"] > ConfOne
          /\ Accepted[j]["confidence"] < 0
          /\ Accepted[i]["url"] # Accepted[j]["url"]
    /\ Len(DestRows) = 2

C8_Step ==
    \A r \in OfferedRecords :
        (offered' = Append(offered, r) /\ ~(required_keys \subseteq DOMAIN r))
            => (results' = results /\ savePc' = savePc)

C8_State ==
    /\ \A i \in 1..Len(results) : required_keys \subseteq DOMAIN results[i]
    /\ Saved => Len(DestRows) <= Len(Accepted)
    /\ Saved => \A k \in 1..Len(DestRows) :
                   \E i \in 1..Len(Accepted) : DestRows[k][1] = Accepted[i]["url"]

\* C8: add_result with a record that lacks url, suspicious or confidence
\* leaves the store as it was (the call returns normally), and no row of
\* the output written by save() comes from such a record.
C8_MissingKeysDropped == []C8_State /\ [][C8_Step]_vars

\* a record without confidence for one URL was offered, a complete record
\* for another was accepted, and the file has the one row
C8_Witness ==
    /\ Saved
    /\ Len(offered) = 3
    /\ Len(Accepted) = 1
    /\ \E i \in 1..Len(offered) :
          /\ "url" \in DOMAIN offered[i]
          /\ "confidence" \notin DOMAIN offered[i]
          /\ offered[i]["url"] # Accepted[1]["url"]
    /\ Len(DestRows) = 1

C9_State ==
    /\ cleanSaves >= 2 => dest = firstOut
    /\ (savePc = "idle" /\ saveRet = "False") => faultAt # "none"

C9_Step == savePc # "idle" => results' = results

\* C9: a save() that follows a successful save() with no add_result in
\* between succeeds too (unless an I/O step fails) and leaves the destination
\* with the same contents; save() never changes the records held in memory.
C9_SaveIdempotent == []C9_State /\ [][C9_Step]_vars

\* two saves in a row of a store with a duplicate URL, onto an older file
C9_Witness ==
    /\ savePc = "idle"
    /\ cleanSaves = 2
    /\ Len(results) = 2
    /\ results[1]["url"] = results[2]["url"]
    /\ Len(DestRows) = 1
    /\ dest0 = OldFile

----------------------------------------------------------------------------
(* Properties of WebCrawler.crawl, checked under Spec *)

\* the pipelines inside "async with semaphore" at an await
Inside == {t \in Tasks : pc[t] \in {"robots", "get", "read", "sleep"}}

\* the pipelines with a fetch on the network
InFlight == {t \in Tasks : pc[t] \in {"get", "read"}}

\* C1: with a ceiling K >= 1 and any list of URLs, at most K pipelines are
\* inside their robots-check/fetch/classify/store section at a time, so at
\* most K fetches are in flight.
C1_AtMostKInside ==
    /\ Cardinality(Inside) <= max_concurrent
    /\ Cardinality(InFlight) <= max_concurrent
    /\ sem = max_concurrent - Cardinality(Inside)

\* three URLs under a ceiling of two: two pipelines are fetching and the
\* third waits for a slot
C1_Witness ==
    /\ Len(urls) = 3
    /\ max_concurrent = 2
    /\ Cardinality(InFlight) = 2
    /\ \E t \in Tasks : pc[t] = "waiting"

\* C2: whatever the outcomes of the URLs (robots disallow, validation
\* failure, size rejection, retries exhausted, classification, exception),
\* when crawl returns each URL's pipeline has passed exactly one record to
\* add_result, a record for that URL: none before the pipeline ends, never a
\* second one.
C2_OneRecordPerUrl ==
    /\ \A t \in Tasks :
          /\ Len(handed[t]) = (IF pc[t] = "done" THEN 1 ELSE 0)
          /\ \A i \in 1..Len(handed[t]) : handed[t][i]["url"] = urls[t]
    /\ crawlRet # NotYet => \A t \in Tasks : Len(handed[t]) = 1

\* crawl returned from three URLs that ended differently, one of them by
\* the exception handler
C2_Witness ==
    /\ crawlRet # NotYet
    /\ Len(urls) = 3
    /\ urls[1] = NonStrUrl
    /\ handed[1][1]["content_type"] = "error"
    /\ {handed[t][1]["content_type"] : t \in Tasks} \cap
           {"failed", "rejected", "disallowed", "structured"} # {}
    /\ Cardinality({handed[t][1]["content_type"] : t \in Tasks}) = 3

----------------------------------------------------------------------------
(* Properties of HttpFetcher.fetch_url, checked under FetchSpec *)

\* the ways an attempt fails that the fetcher treats as transient: a
\* timeout, a connection error or non-2xx status, the same while reading
TransientReplies == {"timeout", "client_error", "read_error"}

\* every GET attempt of pipeline t failed with a transient error
AllAttemptsFailed(t) ==
    \A i \in 1..Len(replies[t]) : replies[t][i] \in TransientReplies

\* pipeline t got past the robots gate and URL validation
ReachedFetch(t) ==
    /\ pc[t] \notin {"waiting", "robots"}
    /\ is_valid_url(urls[t])
    /\ \A i \in 1..Len(handed[t]) : handed[t][i]["content_type"] # "disallowed"

\* C10: when every GET attempt for a valid, allowed URL fails with a
\* transient error, fetch_url issues exactly max_retries attempts (taken as
\* a count, max_retries >= 0) and returns the failed outcome ("Max retries
\* exceeded"); the record stored for the URL has suspicious None and
\* confidence 0.0.  No run issues more than max_retries attempts.
C10_RetriesExhausted ==
    \A t \in Tasks :
        (ReachedFetch(t) /\ max_retries >= 0) =>
            /\ gets[t] <= max_retries
            /\ (pc[t] = "done" /\ AllAttemptsFailed(t)) =>
                  /\ gets[t] = max_retries
                  /\ Len(replies[t]) = max_retries
                  /\ ret[t] = FetchResult(urls[t], PyNone, "failed", "Max retries exceeded")
                  /\ handed[t] = <<Synth(urls[t], "failed")>>
                  /\ handed[t][1]["suspicious"] = PyNone
                  /\ handed[t][1]["confidence"] = 0
                  /\ results = handed[t]

\* two allowed attempts, a timeout and a connection error: failed
C10_Witness ==
    /\ max_retries = 2
    /\ pc[1] = "done"
    /\ gets[1] = 2
    /\ replies[1] = <<"timeout", "client_error">>
    /\ sleeps[1] = <<rate_limit>>
    /\ results[1]["content_type"] = "failed"

\* the ways an attempt ends that fetch_url's handlers catch: the transient
\* ones and a Content-Length that int() cannot read
CaughtReplies == TransientReplies \cup {"cl_garbage"}

\* the responses whose Content-Length lets the body be read: the entry of
\* an attempt in "replies" while response.text() is awaited
PassingHeaders == {"cl_absent", "cl_empty", "cl_small", "cl_at_cap"}

\* the attempts of pipeline t (1-based) that failed before the last allowed one
FailedEarly(t) ==
    {i \in 1..Len(replies[t]) : replies[t][i] \in CaughtReplies /\ i < max_retries}

\* C11: after a failure caught on attempt a (0-based) with
\* a < max_retries - 1 the pipeline sleeps rate_limit * 2^a before attempt
\* a + 1; no sleep precedes the first attempt, none follows the last failed
\* attempt, and an attempt that succeeds (or is refused by size) ends the
\* fetch: no attempt and no sleep comes after it.
C11_BackoffSchedule ==
    \A t \in Tasks :
        /\ Len(sleeps[t]) = Cardinality(FailedEarly(t))
        /\ \A i \in 1..Len(sleeps[t]) :
              /\ replies[t][i] \in CaughtReplies
              /\ sleeps[t][i] = (IF i = 1 THEN rate_limit ELSE 2 * sleeps[t][i - 1])
        /\ gets[t] > 0 =>
              gets[t] = Len(sleeps[t]) + (IF pc[t] = "sleep" THEN 0 ELSE 1)
        /\ pc[t] = "sleep" => Len(replies[t]) = Len(sleeps[t])
        /\ \A i \in 1..Len(replies[t]) :
              replies[t][i] \notin CaughtReplies =>
                  /\ i = Len(replies[t])
                  /\ gets[t] = i
                  /\ Len(sleeps[t]) = i - 1
                  /\ pc[t] = (IF replies[t][i] \in PassingHeaders THEN "read" ELSE "done")

\* three attempts allowed, base 5: a timeout, a sleep of 5, a connection
\* error, a sleep of 10, then a page
C11_Witness ==
    /\ max_retries = 3
    /\ rate_limit = 5
    /\ pc[1] = "done"
    /\ replies[1] = <<"timeout", "client_error", "success">>
    /\ sleeps[1] = <<5, 10>>
    /\ gets[1] = 3

\* the last call pipeline t made
LastCall(t) == calls[t][Len(calls[t])]

\* C12: a response whose Content-Length exceeds MAX_PAGE_SIZE makes
\* fetch_url return the rejected outcome on that attempt without reading the
\* body, with no further attempt and no backoff sleep; a body that exceeds
\* the cap once read does the same; the record stored for the URL has
\* content_type "rejected".
C12_TooLargeRejected ==
    \A t \in Tasks : \A i \in 1..Len(replies[t]) :
        replies[t][i] \in {"cl_over_cap", "body_over_cap"} =>
            /\ pc[t] = "done"
            /\ i = Len(replies[t])
            /\ gets[t] = i
            /\ Len(sleeps[t]) = i - 1
            /\ LastCall(t) = (IF replies[t][i] = "cl_over_cap"
                              THEN "session.get" ELSE "response.text")
            /\ ret[t] = FetchResult(urls[t], PyNone, "rejected",
                                    IF replies[t][i] = "cl_over_cap"
                                    THEN "Content too large" ELSE "Page too large")
            /\ handed[t] = <<Synth(urls[t], "rejected")>>
            /\ \E k \in 1..Len(results) : results[k] = Synth(urls[t], "rejected")

\* after a timeout and its backoff, the second response advertises more
\* than the cap: rejected at once, with a third attempt still allowed
C12_Witness ==
    /\ max_retries = 3
    /\ pc[1] = "done"
    /\ replies[1] = <<"timeout", "cl_over_cap">>
    /\ gets[1] = 2
    /\ Len(sleeps[1]) = 1
    /\ results[1]["content_type"] = "rejected"

\* a body of MAX_PAGE_SIZE + 1 characters behind a response that advertised
\* no length was read and refused
C12_BodyWitness ==
    /\ pc[1] = "done"
    /\ replies[1] = <<"body_over_cap">>
    /\ LastCall(1) = "response.text"
    /\ results[1]["content_type"] = "rejected"

----------------------------------------------------------------------------
(* Properties of URL validation and the robots gate, checked under FetchSpec *)

\* a str with no http/https scheme or no host
LacksSchemeOrHost(u) ==
    IsStr(u) /\ (UrlScheme(u) \notin {"http", "https"} \/ UrlNetloc(u) = "")

\* a URL that fails validation: empty (or blank), scheme not http/https, or
\* no host
FailsValidation(u) == IsStr(u) /\ (Strip(u) = "" \/ LacksSchemeOrHost(u))

\* pipeline t made the call f
Called(t, f) == \E i \in 1..Len(calls[t]) : calls[t][i] = f

\* C13 as claimed: for a URL that fails validation fetch returns the
\* rejected outcome at once, with no retry, and the record stored for the URL
\* is tagged content_type "rejected".
C13_InvalidUrlRejected ==
    \A t \in Tasks :
        (FailsValidation(urls[t]) /\ pc[t] \notin {"waiting", "robots"}) =>
            /\ pc[t] = "done"
            /\ gets[t] = 0
            /\ handed[t] = <<Synth(urls[t], "rejected")>>

\* C13 amended: for a URL that fails validation fetch_url, once called,
\* returns at once with status "error" ("Empty URL" or "Invalid URL format"),
\* no GET and no retry, and the record stored is tagged "error"; the robots
\* gate, which comes first, can only stop such a URL when urllib can open its
\* robots file, and the record is then tagged "disallowed".
C13_InvalidUrlIsError ==
    \A t \in Tasks :
        (FailsValidation(urls[t]) /\ pc[t] \notin {"waiting", "robots"}) =>
            /\ pc[t] = "done"
            /\ gets[t] = 0
            /\ replies[t] = <<>>
            /\ sleeps[t] = <<>>
            /\ gate[t] = "True" =>
                  /\ Called(t, "fetch_url")
                  /\ ret[t] = FetchResult(urls[t], PyNone, "error",
                                          IF Strip(urls[t]) = "" THEN "Empty URL"
                                          ELSE "Invalid URL format")
                  /\ handed[t] = <<Synth(urls[t], "error")>>
            /\ gate[t] = "False" =>
                  /\ RobotsReadable(urls[t])
                  /\ ~Called(t, "fetch_url")
                  /\ handed[t] = <<Synth(urls[t], "disallowed")>>

\* a URL with a scheme and no host, three attempts allowed: recorded as
\* "error" without a GET
C13_Witness ==
    /\ urls[1] = "https:///nohost"
    /\ max_retries = 3
    /\ pc[1] = "done"
    /\ gets[1] = 0
    /\ ret[1]["error"] = "Invalid URL format"
    /\ results[1]["content_type"] = "error"

\* C14: a URL that lacks an http/https scheme or a host is reported invalid
\* by is_valid_url and never reaches fetch_url's network phase: no GET is
\* issued for it, whatever max_retries is.
C14_NoGetForInvalidUrl ==
    \A t \in Tasks :
        LacksSchemeOrHost(urls[t]) =>
            /\ ~is_valid_url(urls[t])
            /\ gets[t] = 0
            /\ ~Called(t, "session.get")
            /\ ~Called(t, "response.text")
            /\ pc[t] \in {"waiting", "robots", "done"}

\* an ftp URL went through is_valid_url with three attempts allowed and
\* ended without a GET
C14_Witness ==
    /\ urls[1] = "ftp://a.com/f"
    /\ max_retries = 3
    /\ pc[1] = "done"
    /\ Called(1, "is_valid_url")
    /\ gets[1] = 0

\* C15: validation comes before any network use: for a URL that fails
\* validation no network operation is performed on its behalf; in particular
\* robots.txt is not fetched for it.
C15_ValidationBeforeNetwork ==
    \A t \in Tasks :
        FailsValidation(urls[t]) =>
            /\ ~Called(t, "rp.read")
            /\ ~Called(t, "session.get")
            /\ ~Called(t, "response.text")

\* C16: when the robots gate disallows a URL, neither fetch_url nor the
\* classifier is called for it, and the record made for it is exactly
\* suspicious = None, confidence = 0.0, content_type = "disallowed".
C16_DisallowedSkipsFetch ==
    \A t \in Tasks :
        gate[t] = "False" =>
            /\ pc[t] = "done"
            /\ ~Called(t, "fetch_url")
            /\ ~Called(t, "is_valid_url")
            /\ ~Called(t, "session.get")
            /\ ~Called(t, "analyze")
            /\ gets[t] = 0
            /\ handed[t] = <<[url |-> urls[t], suspicious |-> PyNone, confidence |-> 0,
                              content_type |-> "disallowed"]>>
            /\ ret[t] = handed[t][1]
            /\ \E k \in 1..Len(results) : results[k] = handed[t][1]

\* the robots file of a valid URL disallows it, with three attempts allowed
C16_Witness ==
    /\ urls[1] = "https://a.com/"
    /\ max_retries = 3
    /\ gate[1] = "False"
    /\ pc[1] = "done"
    /\ results[1]["content_type"] = "disallowed"

----------------------------------------------------------------------------
(* Properties of _crawl_single_url, checked under Spec *)

\* the number of calls of f by pipeline t
CallCount(t, f) == Cardinality({i \in 1..Len(calls[t]) : calls[t][i] = f})

\* how fetch_url ended for pipeline t, read off the history of the run
FetchOutcome(t) ==
    IF FailsValidation(urls[t]) THEN "error"
    ELSE IF replies[t] = <<>> THEN "failed"
    ELSE LET last == replies[t][Len(replies[t])]
         IN IF last \in {"cl_over_cap", "body_over_cap"} THEN "rejected"
            ELSE IF last \in {"success", "parse_error"} THEN "success"
            ELSE "failed"

RaisedIn(t) ==
    \/ pc[t] \notin {"waiting", "robots"} /\ ~IsStr(urls[t])
    \/ replies[t] # <<>> /\ replies[t][Len(replies[t])] = "parse_error"

\* C18: an exception raised in one URL's pipeline becomes a record for that
\* URL with content_type "error" and suspicious = None; crawl does not raise
\* because of it, and every other pipeline still gets its slot, runs to its
\* end and produces its own record.
C18_ExceptionIsolated ==
    /\ \A t \in Tasks :
          RaisedIn(t) =>
              /\ pc[t] = "done"
              /\ Len(handed[t]) = 1
              /\ handed[t][1]["url"] = urls[t]
              /\ handed[t][1]["content_type"] = "error"
              /\ handed[t][1]["suspicious"] = PyNone
              /\ ret[t] = handed[t][1]
              /\ t \notin Inside
    /\ (\E t \in Tasks : pc[t] = "waiting") => (sem > 0 \/ Inside # {})
    /\ crawlRet # NotYet =>
          /\ Len(crawlRet.list) = Len(urls)
          /\ \A t \in Tasks :
                /\ pc[t] = "done"
                /\ crawlRet.list[t] = ret[t]
                /\ Len(handed[t]) = 1
                /\ handed[t][1]["url"] = urls[t]

\* under a ceiling of one, the first pipeline raised in fetch_url and the
\* second in the parser; the third still ran and its page was classified,
\* and crawl returned three results
C18_Witness ==
    /\ max_concurrent = 1
    /\ Len(urls) = 3
    /\ urls[1] = NonStrUrl
    /\ crawlRet # NotYet
    /\ RaisedIn(1) /\ RaisedIn(2) /\ ~RaisedIn(3)
    /\ IsStr(urls[2])
    /\ handed[3][1]["content_type"] = "structured"
    /\ Len(results) = 3

----------------------------------------------------------------------------
(* Properties of ContentParser.analyze, checked under FetchSpec, where every
   page of AllPages can be the body of the one URL *)

\* pipeline t ended with the classification of a non-empty page that parsed
Classified(t) ==
    /\ pc[t] = "done"
    /\ replies[t] # <<>>
    /\ replies[t][Len(replies[t])] = "success"
    /\ Len(handed[t]) = 1
    /\ handed[t][1]["content_type"] # "empty"

\* record rec is the judgement the claim gives for a page with n content
\* markers and (region) a main or article region
Judged(rec, n, region) ==
    /\ rec["suspicious"] = (IF n < 5 /\ ~region THEN "True" ELSE "False")
    /\ rec["confidence"] = (IF region THEN 85 ELSE 15)
    /\ rec["content_type"] = (IF n > 0 THEN "structured"
                              ELSE IF region THEN "semantic" ELSE "unstructured")

C19_SixMarkers ==
    /\ Classified(1)
    /\ handed[1][1]["analysis"]["content_divs"] = 6
    /\ ~handed[1][1]["analysis"]["has_main"]
    /\ ~handed[1][1]["analysis"]["has_article"]
    /\ handed[1][1]["content_type"] = "structured"
    /\ handed[1][1]["suspicious"] = "False"

\* C20: a non-empty page with no content markers and no main/article region
\* is judged suspicious = True with confidence 0.85 and a content_type other
\* than "structured".
C20_MinimalPageHighConfidence ==
    \A t \in Tasks :
        (/\ Classified(t)
         /\ handed[t][1]["analysis"]["content_divs"] = 0
         /\ ~handed[t][1]["analysis"]["has_main"]
         /\ ~handed[t][1]["analysis"]["has_article"]) =>
            /\ handed[t][1]["suspicious"] = "True"
            /\ handed[t][1]["confidence"] = 85
            /\ handed[t][1]["content_type"] # "structured"

\* pipeline t fetched a body and handed the classifier's record to the store
Analyzed(t) ==
    /\ pc[t] = "done"
    /\ replies[t] # <<>>
    /\ replies[t][Len(replies[t])] = "success"
    /\ bodyRead[t] # NotYet
    /\ Len(handed[t]) = 1

C27_RobotsFailOpen ==
    \A t \in Tasks :
        gate[t] = "False" => robots[t] = "disallow"

\* C28 as stated: the returned sequence lists the records in the order in
\* which the pipelines completed.  Every pipeline of a str URL ends with one
\* add_result, so self.results holds the URLs in the order of completion.
C28_OrderedByCompletion ==
    (crawlRet # NotYet /\ \A t \in Tasks : IsStr(urls[t])) =>
        \A k \in Tasks :
            k <= Len(results) => crawlRet.list[k]["url"] = results[k]["url"]

\* C28: the returned sequence lists the per-URL results in the order of the
\* input list (element i belongs to the i-th URL), whatever the order the
\* pipelines completed in.
C28_OrderedAsInput ==
    crawlRet # NotYet =>
        /\ Len(crawlRet.list) = Len(urls)
        /\ \A t \in Tasks : crawlRet.list[t]["url"] = urls[t]

\* crawl has returned and the second URL's pipeline completed before the
\* first one's
C28_Witness ==
    /\ crawlRet # NotYet
    /\ Len(urls) >= 2
    /\ urls[1] = "https://a.com/"
    /\ urls[2] = "a.com/page"
    /\ Len(results) >= 2
    /\ results[1]["url"] = urls[2]
    /\ results[2]["url"] = urls[1]
    /\ crawlRet.list[1]["url"] = urls[1]

\* C29: crawl returns one element per input URL, each of them the record
\* (url, suspicious, confidence, content_type) that was handed to the store
\* for that URL, for every outcome.
C29_ReturnsHandedRecords ==
    crawlRet # NotYet =>
        /\ Len(crawlRet.list) = Len(urls)
        /\ \A t \in Tasks :
              /\ DOMAIN crawlRet.list[t] =
                    {"url", "suspicious", "confidence", "content_type"}
              /\ crawlRet.list[t] = handed[t][1]

\* what C30 says of one step: a slot is taken by a pipeline that leaves the
\* queue, kept while the pipeline moves between its network steps and its
\* backoff sleeps, and given back in the step that hands the record over
SlotStep ==
    \A t \in Tasks :
        LET in  == pc[t] \in {"robots", "get", "read", "sleep"}
            in2 == pc'[t] \in {"robots", "get", "read", "sleep"}
        IN  /\ (pc[t] = "waiting" /\ pc'[t] # "waiting") => sem > 0
            /\ (pc[t] = "waiting" /\ in2) => sem' = sem - 1
            /\ (in /\ in2 /\ pc'[t] # pc[t]) => sem' = sem
            /\ (in /\ pc'[t] = "done") =>
                  /\ sem' = sem + 1
                  /\ Len(handed[t]) = 0
                  /\ Len(handed'[t]) = 1
                  /\ ret'[t] # NotYet
            /\ (pc[t] = "waiting" /\ pc'[t] = "done") =>
                  /\ sem' = sem
                  /\ Len(handed'[t]) = 1
            /\ pc[t] = "done" => pc'[t] = "done"
    /\ sem' - sem = Cardinality(Inside) - Cardinality(Inside')

\* C30: a pipeline holds one slot from before its first network step until
\* its record is handed to the store, backoff sleeps included, releases it
\* on every exit path before its result is returned, and all K slots are
\* free when crawl returns.
C30_SlotHeldUntilHanded ==
    /\ [](\A t \in Tasks : pc[t] \in {"robots", "get", "read", "sleep"} =>
              /\ sem < max_concurrent
              /\ Len(handed[t]) = 0
              /\ ret[t] = NotYet)
    /\ [](crawlRet # NotYet => sem = max_concurrent)
    /\ [][SlotStep]_vars

\* under a ceiling of one the first pipeline sleeps between two attempts,
\* holding the only slot, while the second waits
C30_Witness ==
    /\ max_concurrent = 1
    /\ Len(urls) >= 2
    /\ pc[1] = "sleep"
    /\ pc[2] = "waiting"
    /\ sem = 0

\* C23: on every path of main, one interrupted by SIGTERM/SIGINT included,
\* the process exits with status zero only if at least one result was
\* produced and save() returned True; a failed save() gives a non-zero
\* status.
C23_ZeroOnlyAfterSave ==
    /\ exitStatus = "0" =>
          /\ crawlRet # NotYet
          /\ Len(crawlRet.list) >= 1
          /\ saveRet = "True"
    /\ (mainPc = "exited" /\ saveRet = "False") => exitStatus # "0"

\* C24: when START_URLS holds no valid URL at all (no entry, or entries
\* that all fail URL validation), the run aborts at startup with a non-zero
\* status, before any robots check or fetch is attempted.  (A run ended by a
\* signal is left aside.)
C24_NoValidUrlAborts ==
    (\A i \in 1..Len(start_urls) : ~is_valid_url(Strip(start_urls[i]))) =>
        /\ \A t \in Tasks : calls[t] = <<>>
        /\ (mainPc = "exited" /\ savePc # "down") => exitStatus = "1"

\* what C25 says of one step: once save() has been entered the list of the
\* store does not change any more
QuiescentStep ==
    (saveCalls >= 1 \/ saveCalls' >= 1) =>
        /\ results' = results
        /\ handed' = handed

\* C25: in a run that reaches completion save() is invoked exactly once,
\* after every per-URL pipeline has completed, and no add_result happens
\* during or after it.
C25_SaveOnceWhenQuiescent ==
    /\ [](saveCalls <= 1)
    /\ [](saveCalls = 1 =>
              /\ crawlRet # NotYet
              /\ \A t \in Tasks : pc[t] = "done" /\ Len(handed[t]) = 1)
    /\ []((mainPc = "exited" /\ savePc = "idle" /\ urls # <<>>) => saveCalls = 1)
    /\ [][QuiescentStep]_vars

\* a run over two URLs has gone through crawl and save() and has exited
C25_Witness ==
    /\ mainPc = "exited"
    /\ exitStatus = "0"
    /\ Len(urls) = 2
    /\ saveCalls = 1
    /\ saveRet = "True"
    /\ Len(results) = 2
    /\ dest.exists

PipelineStep(t) ==
    \/ \E kind \in GetKinds : GetReply(t, kind)
    \/ \E body \in AllPages : ReadReply(t, body)
    \/ Wake(t)

\* C31: while a pipeline is in a backoff sleep or waits on the network read
\* of its fetch, every other pipeline that holds a slot and is in its fetch
\* can take its next step: the sleeping or waiting fetch does not stop it.
C31_SleepDoesNotBlock ==
    \A s \in Tasks : \A t \in Tasks \ {s} :
        (/\ pc[s] \in {"sleep", "get", "read"}
         /\ pc[t] \in {"sleep", "get", "read"}
         /\ \A r \in Tasks : pc[r] # "robots") =>
            ENABLED PipelineStep(t)

\* the first pipeline sleeps between two attempts while the second has its
\* GET on the network and can be answered
C31_Witness ==
    /\ Len(urls) >= 2
    /\ max_concurrent = 2
    /\ pc[1] = "sleep"
    /\ pc[2] = "get"
    /\ sem = 0
    /\ ENABLED PipelineStep(2)

\* C32: the read of robots.txt is a non-blocking wait: while one pipeline
\* waits on it, the other admitted pipelines can take their steps.
C32_RobotsReadDoesNotBlock ==
    \A s \in Tasks : \A t \in Tasks \ {s} :
        (pc[s] = "robots" /\ pc[t] \in {"sleep", "get", "read"}) =>
            ENABLED PipelineStep(t)

\* the records pipeline t hands to the store in the step being taken
NewlyHanded(t) == SubSeq(handed'[t], Len(handed[t]) + 1, Len(handed'[t]))

\* what C33 says of one step: at most one pipeline is in add_result, and
\* the list of the store grows by just the records that pipeline hands over,
\* validated and clamped, behind the records that were there
SerialStep ==
    /\ \A s \in Tasks : \A t \in Tasks \ {s} :
          handed'[s] = handed[s] \/ handed'[t] = handed[t]
    /\ \A t \in Tasks :
          handed'[t] # handed[t] =>
              /\ results' = AddAll(results, NewlyHanded(t))
              /\ SubSeq(results', 1, Len(results)) = results
    /\ (\A t \in Tasks : handed'[t] = handed[t]) => results' = results

\* the pipelines whose record add_result accepts
Kept == {t \in Tasks : handed[t] # <<>> /\ ValidateOK(handed[t][1])}

\* C33: the add_result calls of the concurrent pipelines do not interleave:
\* under every interleaving the store ends with exactly the records that
\* were added, none lost, none twice, each validated and clamped.
C33_AddResultSerialized ==
    /\ [][SerialStep]_vars
    /\ [](Len(results) = Cardinality(Kept))
    /\ [](\A t \in Kept : \E k \in 1..Len(results) :
              results[k] = Validated(handed[t][1]))
    /\ [](\A k \in 1..Len(results) : \E t \in Kept :
              results[k] = Validated(handed[t][1]))

\* three pipelines ran two at a time and each left its record, the third
\* URL's before the first one's
C33_Witness ==
    /\ Len(urls) = 3
    /\ max_concurrent = 2
    /\ crawlRet # NotYet
    /\ Len(results) = 3
    /\ urls[1] = "https://a.com/"
    /\ urls[3] = "a.com/page"
    /\ results[1]["url"] = urls[3]
    /\ results[3]["url"] = urls[1]

\* C34: with a finite list, a ceiling K >= 1 and a finite max_retries, if
\* every network operation and sleep ends and the scheduler is fair, every
\* pipeline is admitted and completes and crawl returns; no URL is
\* requested more than max_retries times and no pipeline waits for a slot
\* for ever.
C34_CrawlTerminates ==
    /\ <>(crawlRet # NotYet /\ \A t \in Tasks : pc[t] = "done")
    /\ \A t \in 1..MainUrls :
          []<>(t \in Tasks => pc[t] # "waiting")
    /\ \A t \in 1..MainUrls :
          <>[](t \in Tasks => (pc[t] = "done" /\ Len(handed[t]) = 1))
    /\ [](\A t \in Tasks :
              /\ gets[t] <= max_retries
              /\ Len(replies[t]) <= max_retries
              /\ Len(sleeps[t]) < Max2(max_retries, 1))

\* two URLs under a ceiling of one: the second waited while the first used
\* all its attempts, then ran, and crawl has returned
C34_Witness ==
    /\ Len(urls) = 2
    /\ max_concurrent = 1
    /\ max_retries = 2
    /\ crawlRet # NotYet
    /\ gets[1] = 2
    /\ Len(sleeps[1]) = 1
    /\ handed[1][1]["content_type"] = "failed"
    /\ pc[2] = "done"

\* the step in which save() returns
SaveReturns == savePc \in {"makedirs", "mkstemp", "header", "rows"} /\ savePc' = "idle"

\* C35 as stated: whenever save() returns, with True or with False, no
\* temporary file made by that call remains beside the destination.
C35_NoTempRemains ==
    [][SaveReturns => (orphans' = orphans /\ ~temp'.exists)]_vars

\* C35: when save() returns True its temp file has become the destination;
\* when it returns False the temp file, if the call had made one, has been
\* deleted, unless os.remove failed as well: that failure is swallowed and
\* the file stays beside the destination.
C35_TempGoneUnlessRemoveFails ==
    [][SaveReturns =>
          /\ ~temp'.exists
          /\ saveRet' = "True" =>
                /\ orphans' = orphans
                /\ dest'.exists
                /\ ~removeFailed'
          /\ saveRet' = "False" =>
                /\ removeFailed' => temp.exists
                /\ orphans' = orphans + (IF removeFailed' THEN 1 ELSE 0)]_vars

\* a save() failed while writing rows, could not delete its temp file and
\* returned False with the file left behind
C35_Witness ==
    /\ savePc = "idle"
    /\ saveRet = "False"
    /\ faultAt = "rows"
    /\ removeFailed
    /\ orphans = 1

\* C36: URL validation rejects every URL shorter than 3 or longer than 2048
\* characters, whatever its scheme and host, so that such a URL is never
\* fetched.
C36_LengthBoundRejects ==
    \A t \in Tasks :
        (IsStr(urls[t]) /\ (UrlLen(urls[t]) < 3 \/ UrlLen(urls[t]) > 2048)) =>
            /\ gets[t] = 0
            /\ ~Called(t, "session.get")
            /\ Called(t, "is_valid_url") => ~is_valid_url(urls[t])

\* the content types of a page that was classified
JudgedTypes == {"structured", "semantic", "unstructured"}

\* C37: every record handed to the store has suspicious = None exactly when
\* its content_type is not structured, semantic or unstructured (it is then
\* empty, error, disallowed, rejected or failed); a record with suspicious =
\* None has confidence 0.0; a True/False judgement is there only for a page
\* that was fetched and analysed.
C37_NoneIffNotJudged ==
    \A t \in Tasks : \A i \in 1..Len(handed[t]) :
        LET rec == handed[t][i]
        IN  /\ rec["suspicious"] \in {PyNone, "True", "False"}
            /\ rec["content_type"] \in
                  JudgedTypes \cup {"empty", "error", "disallowed", "rejected", "failed"}
            /\ rec["suspicious"] = PyNone <=> rec["content_type"] \notin JudgedTypes
            /\ rec["suspicious"] = PyNone => rec["confidence"] = 0
            /\ rec["suspicious"] # PyNone =>
                  /\ Called(t, "analyze")
                  /\ bodyRead[t] # NotYet
                  /\ bodyRead[t].read
                  /\ replies[t][Len(replies[t])] = "success"

\* a page refused for its advertised size was recorded without judgement
C37_Witness ==
    /\ pc[1] = "done"
    /\ replies[1] = <<"cl_over_cap">>
    /\ handed[1][1]["content_type"] = "rejected"
    /\ handed[1][1]["suspicious"] = PyNone
    /\ handed[1][1]["confidence"] = 0

\* C38: with max_retries <= 0 the fetch of a valid URL issues no GET and
\* takes no sleep, and returns the failed outcome (max retries exceeded):
\* the URL is recorded as failed without having been requested.
C38_NoAttemptWithoutRetries ==
    \A t \in Tasks :
        (max_retries <= 0 /\ is_valid_url(urls[t]) /\ gate[t] = "True") =>
            /\ pc[t] = "done"
            /\ gets[t] = 0
            /\ ~Called(t, "session.get")
            /\ replies[t] = <<>>
            /\ sleeps[t] = <<>>
            /\ Called(t, "fetch_url")
            /\ handed[t] = <<Synth(urls[t], "failed")>>
            /\ ret[t] = FetchResult(urls[t], PyNone, "failed", "Max retries exceeded")

\* a valid URL allowed by robots.txt was crawled with max_retries = 0
C38_Witness ==
    /\ max_retries = 0
    /\ urls[1] = "https://a.com/"
    /\ gate[1] = "True"
    /\ pc[1] = "done"
    /\ results = <<Synth("https://a.com/", "failed")>>

\* the GET of pipeline t is answered 2xx with a Content-Length that is no
\* integer
GarbageStep(t) ==
    /\ pc[t] = "get"
    /\ replies'[t] = Append(replies[t], "cl_garbage")

\* every attempt of pipeline t so far got an unparsable Content-Length
OnlyGarbage(t) ==
    /\ replies[t] # <<>>
    /\ \A i \in 1..Len(replies[t]) : replies[t][i] = "cl_garbage"

\* C40: a 2xx response whose Content-Length is present but not an integer
\* is a transient failure: the body is not read on that attempt, the attempt
\* counts against max_retries with the usual backoff, and when every attempt
\* ends so the outcome is failed (not rejected, not success).
C40_GarbageLengthIsTransient ==
    /\ [][\A t \in Tasks : GarbageStep(t) =>
              /\ calls'[t] = calls[t]
              /\ bodyRead'[t] = bodyRead[t]
              /\ IF attempt[t] < max_retries - 1
                 THEN /\ pc'[t] = "sleep"
                      /\ sleeps'[t] = Append(sleeps[t], rate_limit * Pow2(attempt[t]))
                      /\ handed'[t] = <<>>
                 ELSE /\ pc'[t] = "done"
                      /\ sleeps'[t] = sleeps[t]
                      /\ handed'[t] = <<Synth(urls[t], "failed")>>
                      /\ ret'[t]["status"] = "failed"]_vars
    /\ [](\A t \in Tasks :
              (OnlyGarbage(t) /\ pc[t] = "done") =>
                  /\ Len(replies[t]) = max_retries
                  /\ gets[t] = max_retries
                  /\ ~Called(t, "response.text")
                  /\ bodyRead[t] = NotYet
                  /\ handed[t][1]["content_type"] = "failed")

\* three attempts, each answered with an unreadable Content-Length, two
\* backoff sleeps between them, and the URL is recorded as failed
C40_Witness ==
    /\ max_retries = 3
    /\ rate_limit = 5
    /\ replies[1] = <<"cl_garbage", "cl_garbage", "cl_garbage">>
    /\ sleeps[1] = <<5, 10>>
    /\ pc[1] = "done"
    /\ handed[1][1]["content_type"] = "failed"

\* crawl was given a proxy that validate_proxy_url refuses
BadProxyGiven ==
    /\ proxy_given \notin {PyNone, ""}
    /\ validate_proxy_url(proxy_given) = PyNone

\* C39: a configured proxy that fails proxy validation does not abort the
\* run and marks no URL as failed: crawl goes on with no proxy, and every
\* GET of the run is issued directly.
C39_BadProxyDropped ==
    BadProxyGiven =>
        /\ proxy = PyNone
        /\ \A t \in Tasks : via[t] \subseteq {PyNone}
        /\ \A t \in Tasks : gets[t] > 0 => via[t] = {PyNone}
        /\ (mainPc = "exited" /\ savePc # "down" /\ urls # <<>>) =>
              (crawlRet # NotYet /\ saveCalls = 1)
        /\ \A t \in Tasks : \A i \in 1..Len(handed[t]) :
              /\ handed[t][i]["content_type"] = "failed" =>
                    /\ Len(replies[t]) = max_retries
                    /\ \A k \in 1..Len(replies[t]) : replies[t][k] = "timeout"
              /\ handed[t][i]["content_type"] = "error" => ~is_valid_url(urls[t])

\* PROXY_URL was an ftp URL; the run fetched its page directly, saved and
\* exited with status 0
C39_Witness ==
    /\ proxy_given = "ftp://proxy.example.com"
    /\ proxy = PyNone
    /\ mainPc = "exited"
    /\ exitStatus = "0"
    /\ urls = <<"https://a.com/">>
    /\ via[1] = {PyNone}
    /\ Len(results) = 1
    /\ results[1]["content_type"] = "structured"

====
